---- MODULE Spec2Model ----
(***************************************************************************)
(* A model of pngme: PNG chunk types, chunks (length, type, data, CRC-32), *)
(* the PNG datastream and the encode / decode / remove commands.           *)
(*                                                                         *)
(* Representation of the machine integers:                                 *)
(*   u8     a number in 0..255                                             *)
(*   u32    <<hi, lo>>, two 16-bit halves, value hi * 2^16 + lo            *)
(*   usize  <<l3, l2, l1, l0>>, four 16-bit limbs (a 64-bit target)        *)
(* A Vec<u8>, a &[u8] and a String (its UTF-8 bytes) are sequences of u8.  *)
(* A Result is [ok |-> TRUE, val |-> v] or [ok |-> FALSE, err |-> kind].   *)
(***************************************************************************)
EXTENDS Integers, Sequences, FiniteSets, TLC

VARIABLES
    tyIn,     \* SpecType: the input handed to a ChunkType constructor
    tyRes,    \* SpecType: what the constructor returned
    chunk,    \* SpecChunk: the last Result<Chunk>
    buf,      \* SpecChunk: a byte buffer (a serialized chunk, possibly damaged)
    orig,     \* SpecChunk: the serialization buf was taken from
    flips,    \* SpecChunk: the bit positions of orig flipped in buf
    chOp,     \* SpecChunk: the last operation
    lenIn,    \* SpecLen: the size of the data handed to Chunk::new or to Chunk::try_from
    lenRes,   \* SpecLen: the outcome of Chunk::new's length handling
    parsed,   \* SpecLen: the outcome of Chunk::try_from's length handling
    png,      \* SpecPng: the PNG datastream object (its chunk sequence)
    pngLast,  \* SpecPng: the last datastream operation, its argument and result
    fs,       \* Spec: the files on disk, path -> bytes or NoFile
    last      \* Spec: the last command, its arguments, the files before, its result

vars == <<tyIn, tyRes, chunk, buf, orig, flips, chOp, lenIn, lenRes, parsed, png, pngLast,
          fs, last>>

typeVars  == <<tyIn, tyRes>>
chunkVars == <<chunk, buf, orig, flips, chOp>>
lenVars   == <<lenIn, lenRes, parsed>>
pngVars   == <<png, pngLast>>
cmdVars   == <<fs, last>>

--------------------------------------------------------------------------
(* Results *)

Ok(v) == [ok |-> TRUE, val |-> v]

\* an error of kind e; detail holds the values its message reports
Err(e, d) == [ok |-> FALSE, err |-> e, detail |-> d]

None == [some |-> FALSE]

Some(v) == [some |-> TRUE, val |-> v]

--------------------------------------------------------------------------
(* Bit operations on machine integers *)

RECURSIVE BitXor(_, _)
BitXor(a, b) ==
    IF a = 0 THEN b
    ELSE IF b = 0 THEN a
    ELSE (((a % 2) + (b % 2)) % 2) + (2 * BitXor(a \div 2, b \div 2))

RECURSIVE BitAnd(_, _)
BitAnd(a, b) ==
    IF a = 0 \/ b = 0 THEN 0
    ELSE ((a % 2) * (b % 2)) + (2 * BitAnd(a \div 2, b \div 2))

\* u8 ^ u8, tabulated
XorTable == [a \in 0..255 |-> [b \in 0..255 |-> BitXor(a, b)]]

\* ^ on 16-bit halves
Xor16(a, b) == (XorTable[a \div 256][b \div 256] * 256) + XorTable[a % 256][b % 256]

\* u32 ^ u32
U32Xor(a, b) == <<Xor16(a[1], b[1]), Xor16(a[2], b[2])>>

\* u32 >> 1
U32Shr1(a) == <<a[1] \div 2, ((a[1] % 2) * 32768) + (a[2] \div 2)>>

\* u32 >> 8
U32Shr8(a) == <<a[1] \div 256, ((a[1] % 256) * 256) + (a[2] \div 256)>>

\* u8 as u32
U32OfByte(b) == <<0, b>>

\* u32::to_be_bytes
to_be_bytes(a) == <<a[1] \div 256, a[1] % 256, a[2] \div 256, a[2] % 256>>

\* u32::from_be_bytes
from_be_bytes(b) == <<(b[1] * 256) + b[2], (b[3] * 256) + b[4]>>

\* n (a sequence length, below 2^31) as usize
USizeOf(n) == <<0, 0, n \div 65536, n % 65536>>

\* u32 as usize (zero extension)
U32AsUSize(a) == <<0, 0, a[1], a[2]>>

\* usize as u32 (truncation to the low 32 bits)
USizeAsU32(n) == <<n[3], n[4]>>

Min(a, b) == IF a <= b THEN a ELSE b

\* a <= b on limb sequences of the same length
RECURSIVE LimbLe(_, _)
LimbLe(a, b) ==
    IF a = <<>> THEN TRUE
    ELSE IF Head(a) < Head(b) THEN TRUE
    ELSE IF Head(a) > Head(b) THEN FALSE
    ELSE LimbLe(Tail(a), Tail(b))

\* i32::MAX as usize, 2^31 - 1
I32_MAX == <<0, 0, 32767, 65535>>

\* bytes[from+1 .. to] in 1-based terms: the Rust slice bytes[from..to]
Slice(bytes, from, to) == SubSeq(bytes, from + 1, to)

--------------------------------------------------------------------------
(* chunk_type.rs: ChunkType *)

\* ChunkType::bytes
bytes_of(ct) == ct.inner

\* ChunkType::is_critical: ((inner[0] >> 5) & 0x01) == 0
is_critical(ct) == ((ct.inner[1] \div 32) % 2) = 0

\* ChunkType::is_public: ((inner[1] >> 5) & 0x01) == 0
is_public(ct) == ((ct.inner[2] \div 32) % 2) = 0

\* ChunkType::is_reserved_bit_valid: ((inner[2] >> 5) & 0x01) == 0
is_reserved_bit_valid(ct) == ((ct.inner[3] \div 32) % 2) = 0

\* is_safe_to_copy with the comparison inverted (== 0)
is_safe_to_copy_inverted(ct) == ((ct.inner[4] \div 32) % 2) = 0

\* ChunkType::is_safe_to_copy: ((inner[3] >> 5) & 0x01) == 1
is_safe_to_copy(ct) == ((ct.inner[4] \div 32) % 2) = 1

\* ChunkType::is_valid
is_valid(ct) == is_reserved_bit_valid(ct)

\* u8::is_ascii_uppercase
is_ascii_uppercase(b) == b >= 65 /\ b <= 90

\* the first index of bytes whose byte, with bit 5 cleared (b & !0x20, !0x20 = 0xDF),
\* is no ASCII uppercase letter; 0 when there is none
FirstBadTypeByte(bytes) ==
    LET bad == {i \in 1..Len(bytes) : ~is_ascii_uppercase(BitAnd(bytes[i], 223))}
    IN  IF bad = {} THEN 0 ELSE CHOOSE i \in bad : \A j \in bad : i <= j

\* the byte constructor without the clearing of bit 5: upper case only
ChunkType_try_from_upper_only(bytes) ==
    IF \E i \in 1..4 : ~is_ascii_uppercase(bytes[i])
    THEN Err("InvalidTypeByte", <<bytes[CHOOSE i \in 1..4 : ~is_ascii_uppercase(bytes[i])]>>)
    ELSE Ok([inner |-> bytes])

\* impl TryFrom<[u8; 4]> for ChunkType
ChunkType_try_from(bytes) ==
    LET i == FirstBadTypeByte(bytes)
    IN  IF i # 0 THEN Err("InvalidTypeByte", <<bytes[i]>>)
        ELSE Ok([inner |-> bytes])

\* impl FromStr for ChunkType
ChunkType_from_str(s) ==
    IF Len(s) # 4 THEN Err("InvalidTypeLength", s)
    ELSE ChunkType_try_from(<<s[1], s[2], s[3], s[4]>>)

\* the rendering with its last byte lost
ChunkType_to_string_short(ct) ==
    LET b == bytes_of(ct) IN <<b[1], b[2], b[3]>>

\* impl Display for ChunkType: the String whose bytes are the 4 type bytes
ChunkType_to_string(ct) ==
    LET b == bytes_of(ct) IN <<b[1], b[2], b[3], b[4]>>

--------------------------------------------------------------------------
(* chunk.rs: the CRC table and Chunk *)

\* the reflected CRC-32 polynomial 0xEDB88320
CRC_POLY == <<60856, 33568>>

\* the inner loop of precompute_crc_table: steps j..7 on crc
RECURSIVE crc_table_entry(_, _)
crc_table_entry(crc, j) ==
    IF j >= 8 THEN crc
    ELSE crc_table_entry(
            IF crc[2] % 2 = 1 THEN U32Xor(CRC_POLY, U32Shr1(crc)) ELSE U32Shr1(crc),
            j + 1)

\* precompute_crc_table
precompute_crc_table == [i \in 0..255 |-> crc_table_entry(U32OfByte(i), 0)]

\* const CRC_TABLE
CRC_TABLE == precompute_crc_table

\* one step of compute_crc's loop:
\* crc = CRC_TABLE[((crc ^ b as u32) & 0xFF) as usize] ^ (crc >> 8)
crc_step(crc, b) ==
    U32Xor(CRC_TABLE[U32Xor(crc, U32OfByte(b))[2] % 256], U32Shr8(crc))

\* the values of a u32
IsU32(a) == a[1] \in 0..65535 /\ a[2] \in 0..65535

\* compute_crc's loop over the bytes bs, from the running value crc (a u32 throughout)
RECURSIVE crc_fold(_, _)
crc_fold(crc, bs) ==
    IF bs = <<>> \/ ~IsU32(crc) THEN crc
    ELSE crc_fold(crc_step(crc, Head(bs)), Tail(bs))

\* compute_crc without the final XOR
compute_crc_no_final_xor(chunk_ty, data) ==
    crc_fold(<<65535, 65535>>, chunk_ty \o data)

\* compute_crc over the data alone
compute_crc_data_only(chunk_ty, data) ==
    U32Xor(crc_fold(<<65535, 65535>>, data), <<65535, 65535>>)

\* Chunk::compute_crc
compute_crc(chunk_ty, data) ==
    U32Xor(crc_fold(<<65535, 65535>>, chunk_ty \o data), <<65535, 65535>>)

\* the length check with < for <=
Chunk_new_length_strict(len) ==
    IF LimbLe(I32_MAX, len) THEN Err("DataTooLarge", len)
    ELSE Ok(USizeAsU32(len))

\* Chunk::new, the part that depends on data.len() alone: the ensure! and the
\* cast data.len() as u32
Chunk_new_length(len) ==
    IF ~LimbLe(len, I32_MAX) THEN Err("DataTooLarge", len)
    ELSE Ok(USizeAsU32(len))

\* Chunk::new
Chunk_new(chunk_type, data) ==
    LET l == Chunk_new_length(USizeOf(Len(data)))
    IN  IF ~l.ok THEN l
        ELSE Ok([length     |-> l.val,
                 chunk_type |-> chunk_type,
                 data       |-> data,
                 crc        |-> compute_crc(bytes_of(chunk_type), data)])

\* Chunk::size
Chunk_size(c) == (4 * 2) + 4 + Len(c.data)

\* a byte of a Vec whose length was set before it was written
UNINIT == -1

\* bytes[offset..offset + src.len()].copy_from_slice(src)
copy_from_slice(bytes, offset, src) ==
    [i \in 1..Len(bytes) |->
        IF i > offset /\ i <= offset + Len(src) THEN src[i - offset] ELSE bytes[i]]

\* as_bytes with the length field in little-endian order
Chunk_as_bytes_le(c) ==
    LET l == to_be_bytes(c.length)
    IN  <<l[4], l[3], l[2], l[1]>> \o bytes_of(c.chunk_type) \o c.data \o to_be_bytes(c.crc)

\* Chunk::as_bytes
Chunk_as_bytes(c) ==
    LET chunk_size == Chunk_size(c)
        b0 == [i \in 1..chunk_size |-> UNINIT]
        b1 == copy_from_slice(b0, 0, to_be_bytes(c.length))
        b2 == copy_from_slice(b1, 4, bytes_of(c.chunk_type))
        b3 == IF c.data # <<>> THEN copy_from_slice(b2, 8, c.data) ELSE b2
        offset == IF c.data # <<>> THEN 8 + Len(c.data) ELSE 8
    IN  copy_from_slice(b3, offset, to_be_bytes(c.crc))

\* try_from reading the stored crc in little-endian order
Chunk_try_from_crc_le(bytes) ==
    LET chunk_len == Len(bytes) IN
    IF ~(chunk_len >= 12) THEN Err("ChunkTooShort", <<chunk_len>>)
    ELSE
    LET length == from_be_bytes(<<bytes[1], bytes[2], bytes[3], bytes[4]>>)
        ct == ChunkType_try_from(<<bytes[5], bytes[6], bytes[7], bytes[8]>>)
    IN
    IF ~ct.ok THEN ct
    ELSE
    LET data == Slice(bytes, 8, chunk_len - 4) IN
    IF U32AsUSize(length) # USizeOf(Len(data))
    THEN Err("ChunkLengthMismatch", <<length, Len(data)>>)
    ELSE
    LET crc == from_be_bytes(<<bytes[chunk_len], bytes[chunk_len - 1],
                               bytes[chunk_len - 2], bytes[chunk_len - 3]>>)
        computed_crc == compute_crc(bytes_of(ct.val), data)
    IN
    IF crc # computed_crc THEN Err("ChunkCrcMismatch", <<crc, computed_crc>>)
    ELSE Ok([length     |-> length,
             chunk_type |-> ct.val,
             data       |-> data,
             crc        |-> crc])

\* impl TryFrom<&[u8]> for Chunk
Chunk_try_from(bytes) ==
    LET chunk_len == Len(bytes) IN
    IF ~(chunk_len >= 12) THEN Err("ChunkTooShort", <<chunk_len>>)
    ELSE
    LET length == from_be_bytes(<<bytes[1], bytes[2], bytes[3], bytes[4]>>)
        ct == ChunkType_try_from(<<bytes[5], bytes[6], bytes[7], bytes[8]>>)
    IN
    IF ~ct.ok THEN ct
    ELSE
    LET data == Slice(bytes, 8, chunk_len - 4) IN
    IF U32AsUSize(length) # USizeOf(Len(data))
    THEN Err("ChunkLengthMismatch", <<length, Len(data)>>)
    ELSE
    LET crc == from_be_bytes(<<bytes[chunk_len - 3], bytes[chunk_len - 2],
                               bytes[chunk_len - 1], bytes[chunk_len]>>)
        computed_crc == compute_crc(bytes_of(ct.val), data)
    IN
    IF crc # computed_crc THEN Err("ChunkCrcMismatch", <<crc, computed_crc>>)
    ELSE Ok([length     |-> length,
             chunk_type |-> ct.val,
             data       |-> data,
             crc        |-> crc])

\* what try_from does with the lengths, for a slice of data_len + 12 bytes (data_len a
\* usize) whose length field holds length, whose type bytes are letters and whose
\* crc field is the CRC of its type and data: chunk_len >= 12 holds, data is the
\* data_len bytes of bytes[8..chunk_len - 4], and length as usize is compared with
\* data.len(); nothing else is asked of length
Chunk_try_from_length(length, data_len) ==
    IF U32AsUSize(length) # data_len
    THEN Err("ChunkLengthMismatch", <<length, data_len>>)
    ELSE Ok(length)

\* a UTF-8 continuation byte, 0x80..=0xBF
IsCont(x) == x >= 128 /\ x <= 191

\* the first unit of a non-empty byte string as String::from_utf8_lossy reads it:
\* a well-formed scalar value (valid, its length) or a maximal ill-formed prefix
Utf8Unit(src) ==
    LET b == src[1]
        get(i) == IF i <= Len(src) THEN src[i] ELSE 0
        second3 == \/ b = 224 /\ get(2) >= 160 /\ get(2) <= 191
                   \/ b >= 225 /\ b <= 236 /\ IsCont(get(2))
                   \/ b = 237 /\ get(2) >= 128 /\ get(2) <= 159
                   \/ b >= 238 /\ b <= 239 /\ IsCont(get(2))
        second4 == \/ b = 240 /\ get(2) >= 144 /\ get(2) <= 191
                   \/ b >= 241 /\ b <= 243 /\ IsCont(get(2))
                   \/ b = 244 /\ get(2) >= 128 /\ get(2) <= 143
    IN  IF b < 128 THEN [valid |-> TRUE, len |-> 1]
        ELSE IF b >= 194 /\ b <= 223 THEN
            IF IsCont(get(2)) THEN [valid |-> TRUE, len |-> 2]
            ELSE [valid |-> FALSE, len |-> 1]
        ELSE IF b >= 224 /\ b <= 239 THEN
            IF ~second3 THEN [valid |-> FALSE, len |-> 1]
            ELSE IF ~IsCont(get(3)) THEN [valid |-> FALSE, len |-> 2]
            ELSE [valid |-> TRUE, len |-> 3]
        ELSE IF b >= 240 /\ b <= 244 THEN
            IF ~second4 THEN [valid |-> FALSE, len |-> 1]
            ELSE IF ~IsCont(get(3)) THEN [valid |-> FALSE, len |-> 2]
            ELSE IF ~IsCont(get(4)) THEN [valid |-> FALSE, len |-> 3]
            ELSE [valid |-> TRUE, len |-> 4]
        ELSE [valid |-> FALSE, len |-> 1]

\* String::from_utf8_lossy: ill-formed parts become U+FFFD (EF BF BD)
RECURSIVE from_utf8_lossy(_)
from_utf8_lossy(src) ==
    IF src = <<>> THEN <<>>
    ELSE LET u == Utf8Unit(src)
         IN  (IF u.valid THEN SubSeq(src, 1, u.len) ELSE <<239, 191, 189>>)
                 \o from_utf8_lossy(SubSeq(src, u.len + 1, Len(src)))

\* the rendering without the lossy decoding (the bytes taken as they are)
Chunk_to_string_unchecked(c) == c.data

\* impl Display for Chunk
Chunk_to_string(c) == from_utf8_lossy(c.data)

--------------------------------------------------------------------------
(* Bounds and input sets *)

\* the longest text handed to ChunkType::from_str, in characters
MaxTextChars == 4

\* the longest chunk data handed to Chunk::new
MaxDataLen == 2

\* how far around each boundary the data lengths of SpecLen range
LenDelta == 8

\* bytes around the edges of 'A'..'Z' and 'a'..'z', a digit, and bytes with bit 7 set
TypeBytes == {49, 64, 65, 90, 91, 96, 97, 122, 123, 193, 225}

\* the characters of the texts, each as its UTF-8 bytes ('1', 'A', 'Z', 'a', 'z', U+00E9)
TextChars == {<<49>>, <<65>>, <<90>>, <<97>>, <<122>>, <<195, 169>>}

RECURSIVE TextsOf(_)
TextsOf(n) ==
    IF n = 0 THEN {<<>>}
    ELSE LET shorter == TextsOf(n - 1)
         IN  shorter \cup {t \o c : t \in shorter, c \in TextChars}

Texts == TextsOf(MaxTextChars)

\* "RuSt", "ruSt", "IEND", "zzZz"
ChunkTypeTexts ==
    {<<82, 117, 83, 116>>, <<114, 117, 83, 116>>, <<73, 69, 78, 68>>, <<122, 122, 90, 122>>}

ChunkTypes == {ChunkType_try_from(t).val : t \in ChunkTypeTexts}

DataBytes == {0, 104, 255}

RECURSIVE SeqsUpTo(_, _)
SeqsUpTo(S, n) ==
    IF n = 0 THEN {<<>>}
    ELSE LET shorter == SeqsUpTo(S, n - 1)
         IN  shorter \cup {t \o <<x>> : t \in shorter, x \in S}

Datas == SeqsUpTo(DataBytes, MaxDataLen)

\* data lengths (usize) around 0, 2^31, 2^32, 2^32 + 2^31 and 2^48
DataLens ==
    UNION {{<<0, 0, 0, k>>, <<0, 0, 32767, 65535 - k>>, <<0, 0, 32768, k>>,
            <<0, 0, 65535, 65535 - k>>, <<0, 1, 0, k>>, <<0, 1, 32767, 65535 - k>>,
            <<1, 0, 0, k>>} : k \in 0..LenDelta}

\* no call made yet
Pending == Err("pending", <<>>)

--------------------------------------------------------------------------
(* SpecType: the two ChunkType constructors on their inputs *)

InitType ==
    /\ tyIn \in [kind : {"bytes"}, arg : [1..4 -> TypeBytes]]
                    \cup [kind : {"str"}, arg : Texts]
    /\ tyRes = Pending

TypeFromBytes ==
    /\ tyIn.kind = "bytes"
    /\ tyRes = Pending
    /\ tyRes' = ChunkType_try_from(tyIn.arg)
    /\ UNCHANGED tyIn

TypeFromStr ==
    /\ tyIn.kind = "str"
    /\ tyRes = Pending
    /\ tyRes' = ChunkType_from_str(tyIn.arg)
    /\ UNCHANGED tyIn

--------------------------------------------------------------------------
(* SpecChunk: a chunk is built by Chunk::new, then serialized by as_bytes,     *)
(* the buffer damaged or not, and parsed by try_from, any number of times     *)

InitChunk ==
    /\ chunk = Pending
    /\ buf = <<>>
    /\ orig = <<>>
    /\ flips = {}
    /\ chOp = "init"

NewChunk(ct, data) ==
    /\ chOp = "init"
    /\ chunk' = Chunk_new(ct, data)
    /\ buf' = <<>>
    /\ orig' = <<>>
    /\ flips' = {}
    /\ chOp' = "new"

Serialize ==
    /\ chOp \in {"new", "parse"}
    /\ chunk.ok
    /\ buf' = Chunk_as_bytes(chunk.val)
    /\ orig' = buf'
    /\ flips' = {}
    /\ chOp' = "as_bytes"
    /\ UNCHANGED chunk

\* 2^k
RECURSIVE Pow2(_)
Pow2(k) == IF k = 0 THEN 1 ELSE 2 * Pow2(k - 1)

\* bytes with bit i flipped; bit i is bit (i % 8) of byte i \div 8 (counted from 0)
FlipBitAt(bytes, i) ==
    [j \in 1..Len(bytes) |->
        IF j = (i \div 8) + 1 THEN BitXor(bytes[j], Pow2(i % 8)) ELSE bytes[j]]

\* the buffer is damaged in one bit before it is parsed
FlipBit(i) ==
    /\ chOp = "as_bytes"
    /\ i < 8 * Len(buf)
    /\ buf' = FlipBitAt(buf, i)
    /\ flips' = {i}
    /\ chOp' = "flip"
    /\ UNCHANGED <<chunk, orig>>

\* the buffer loses its last byte before it is parsed
DropLast ==
    /\ chOp \in {"as_bytes", "drop"}
    /\ buf # <<>>
    /\ buf' = SubSeq(buf, 1, Len(buf) - 1)
    /\ chOp' = "drop"
    /\ UNCHANGED <<chunk, orig, flips>>

ParseBuf ==
    /\ chOp \in {"as_bytes", "flip", "drop"}
    /\ chunk' = Chunk_try_from(buf)
    /\ chOp' = "parse"
    /\ UNCHANGED <<buf, orig, flips>>

MaxBits == 8 * (12 + MaxDataLen)

--------------------------------------------------------------------------
(* SpecLen: how Chunk::new and Chunk::try_from handle lengths no buffer of    *)
(* the model can have                                                       *)

InitLen ==
    /\ lenIn \in [len : DataLens]
    /\ lenRes = Pending
    /\ parsed = Pending

NewLength ==
    /\ lenRes = Pending
    /\ lenRes' = Chunk_new_length(lenIn.len)
    /\ UNCHANGED <<lenIn, parsed>>

\* Chunk::try_from on a slice of lenIn.len + 12 bytes with a valid type and the right
\* crc, whose length field declares all of the data (the low 32 bits of its size) or
\* none of it
ParseLength(declared) ==
    /\ parsed = Pending
    /\ parsed' = [declared |-> declared, ret |-> Chunk_try_from_length(declared, lenIn.len)]
    /\ UNCHANGED <<lenIn, lenRes>>

--------------------------------------------------------------------------
(* png.rs: the PNG datastream, a signature followed by chunks *)

\* the 8-byte PNG signature, 89 50 4E 47 0D 0A 1A 0A
STANDARD_HEADER == <<137, 80, 78, 71, 13, 10, 26, 10>>

\* the bytes of the first chunk of a non-empty remainder: 12 + the declared length,
\* or all of the remainder when it is shorter than that
FirstChunkBytes(rest) ==
    IF Len(rest) < 12 THEN rest
    ELSE LET length == from_be_bytes(<<rest[1], rest[2], rest[3], rest[4]>>)
         IN  IF LimbLe(U32AsUSize(length), USizeOf(Len(rest) - 12))
             THEN SubSeq(rest, 1, 12 + (length[1] * 65536) + length[2])
             ELSE rest

\* the chunks of the bytes after the signature, or the first chunk error
RECURSIVE parse_chunks(_, _)
parse_chunks(rest, acc) ==
    IF rest = <<>> THEN Ok([chunks |-> acc])
    ELSE LET first == FirstChunkBytes(rest)
             c == Chunk_try_from(first)
         IN  IF ~c.ok THEN c
             ELSE parse_chunks(SubSeq(rest, Len(first) + 1, Len(rest)), Append(acc, c.val))

\* impl TryFrom<&[u8]> for PNG
PNG_try_from(bytes) ==
    IF Len(bytes) < 8 \/ SubSeq(bytes, 1, 8) # STANDARD_HEADER
    THEN Err("BadSignature", <<Len(bytes)>>)
    ELSE parse_chunks(SubSeq(bytes, 9, Len(bytes)), <<>>)

RECURSIVE concat_chunks(_)
concat_chunks(cs) ==
    IF cs = <<>> THEN <<>> ELSE Chunk_as_bytes(Head(cs)) \o concat_chunks(Tail(cs))

\* PNG::as_bytes
PNG_as_bytes(p) == STANDARD_HEADER \o concat_chunks(p.chunks)

\* PNG::append_chunk
append_chunk(p, c) == [chunks |-> Append(p.chunks, c)]

\* the index of the first chunk whose type renders as type_text; 0 when there is none
position_by_type(p, type_text) ==
    LET hits == {i \in 1..Len(p.chunks) :
                    ChunkType_to_string(p.chunks[i].chunk_type) = type_text}
    IN  IF hits = {} THEN 0 ELSE CHOOSE i \in hits : \A j \in hits : i <= j

\* PNG::chunk_by_type
chunk_by_type(p, type_text) ==
    LET i == position_by_type(p, type_text)
    IN  IF i = 0 THEN None ELSE Some(p.chunks[i])

\* PNG::remove_chunk: the datastream afterwards and the chunk removed
remove_chunk(p, type_text) ==
    LET i == position_by_type(p, type_text)
    IN  IF i = 0 THEN [png |-> p, ret |-> None]
        ELSE [png |-> [chunks |-> SubSeq(p.chunks, 1, i - 1)
                                    \o SubSeq(p.chunks, i + 1, Len(p.chunks))],
              ret |-> Some(p.chunks[i])]

--------------------------------------------------------------------------
(* SpecPng: append, lookup and removal on a datastream *)

\* the most chunks a datastream of SpecPng holds
MaxChunks == 3

\* "ruST", "RuSt"
PngTypes == {ChunkType_try_from(t).val : t \in {<<114, 117, 83, 84>>, <<82, 117, 83, 116>>}}

\* "hi", "h", and a byte that is no UTF-8
PngDatas == {<<104, 105>>, <<104>>, <<255>>}

\* "ruST", "RuSt", "RUST", "IEND", "ru1T", "ruS"
LookupTexts ==
    {<<114, 117, 83, 84>>, <<82, 117, 83, 116>>, <<82, 85, 83, 84>>, <<73, 69, 78, 68>>,
     <<114, 117, 49, 84>>, <<114, 117, 83>>}

InitPng ==
    /\ png = [chunks |-> <<>>]
    /\ pngLast = [op |-> "init", arg |-> <<>>, pre |-> [chunks |-> <<>>], ret |-> None,
                  prev |-> None, appended |-> None]

\* appended: the chunk the last mutating operation appended, when that was an append;
\* prev: the same, as it was before this operation
PngAppend(ct, data) ==
    LET c == Chunk_new(ct, data).val IN
    /\ Len(png.chunks) < MaxChunks
    /\ png' = append_chunk(png, c)
    /\ pngLast' = [op |-> "append", arg |-> ChunkType_to_string(ct), pre |-> png,
                   ret |-> None, prev |-> pngLast.appended, appended |-> Some(c)]

PngLookup(type_text) ==
    /\ pngLast' = [op |-> "lookup", arg |-> type_text, pre |-> png,
                   ret |-> chunk_by_type(png, type_text),
                   prev |-> pngLast.appended, appended |-> pngLast.appended]
    /\ UNCHANGED png

PngRemove(type_text) ==
    LET r == remove_chunk(png, type_text) IN
    /\ png' = r.png
    /\ pngLast' = [op |-> "remove", arg |-> type_text, pre |-> png,
                   ret |-> r.ret, prev |-> pngLast.appended, appended |-> None]

\* the datastream, as the last append or removal left it, is serialized and the
\* bytes are parsed again
PngParse ==
    LET bytes == PNG_as_bytes(png)
        r == PNG_try_from(bytes)
    IN  /\ pngLast.op \in {"init", "append", "remove"}
        /\ png' = IF r.ok THEN r.val ELSE png
        /\ pngLast' = [op |-> "parse", arg |-> bytes, pre |-> png, ret |-> r,
                       prev |-> pngLast.appended, appended |-> pngLast.appended]

--------------------------------------------------------------------------
(* commands.rs: the encode, decode and remove commands on the files *)

\* const DEFAULT_OUTPUT: "out.png"
DEFAULT_OUTPUT == "out.png"

Paths == {"in.png", DEFAULT_OUTPUT}

\* png_parse: a file that is not there cannot be opened
png_parse(files, file_path) ==
    IF ~files[file_path].some THEN Err("OpenFailed", file_path)
    ELSE PNG_try_from(files[file_path].val)

\* png_write_to_file; io is what the file system does: the create fails, the copy
\* fails after at most io.written bytes (and before the last byte) of the created
\* and truncated file, or both succeed
png_write_to_file(files, p, output_path, io) ==
    LET bytes == PNG_as_bytes(p)
        outfile == IF output_path.some THEN output_path.val ELSE DEFAULT_OUTPUT
    IN  IF io.kind = "create_fail"
        THEN [fs |-> files, ret |-> Err("CreateFailed", outfile)]
        ELSE IF io.kind = "copy_fail"
        THEN [fs  |-> [files EXCEPT ![outfile] =
                            Some(SubSeq(bytes, 1, Min(io.written, Len(bytes) - 1)))],
              ret |-> Err("WriteFailed", outfile)]
        ELSE [fs |-> [files EXCEPT ![outfile] = Some(bytes)], ret |-> Ok(<<>>)]

\* the policy check without its safe-to-copy condition
encode_policy_no_copy_check(chunk_type) ==
    \/ is_critical(chunk_type)
    \/ is_public(chunk_type)
    \/ ~is_valid(chunk_type)

\* the policy check of invoke_encode: the tag must be ancillary, private, valid and
\* safe to copy
encode_policy_violated(chunk_type) ==
    \/ is_critical(chunk_type)
    \/ is_public(chunk_type)
    \/ ~is_valid(chunk_type)
    \/ ~is_safe_to_copy(chunk_type)

\* invoke_encode with the policy check after the write
invoke_encode_late_policy(files, png_path, chunk_type, message, out_path, io) ==
    LET p == png_parse(files, png_path) IN
    IF ~p.ok THEN [fs |-> files, ret |-> p]
    ELSE
    LET ct == ChunkType_from_str(chunk_type) IN
    IF ~ct.ok THEN [fs |-> files, ret |-> ct]
    ELSE
    LET c == Chunk_new(ct.val, message) IN
    IF ~c.ok THEN [fs |-> files, ret |-> c]
    ELSE
    LET w == png_write_to_file(files, append_chunk(p.val, c.val), out_path, io) IN
    IF ~w.ret.ok THEN w
    ELSE IF encode_policy_violated(ct.val)
    THEN [fs |-> w.fs, ret |-> Err("PolicyViolation", ChunkType_to_string(ct.val))]
    ELSE w

\* invoke_encode: the files afterwards and the result
invoke_encode(files, png_path, chunk_type, message, out_path, io) ==
    LET p == png_parse(files, png_path) IN
    IF ~p.ok THEN [fs |-> files, ret |-> p]
    ELSE
    LET ct == ChunkType_from_str(chunk_type) IN
    IF ~ct.ok THEN [fs |-> files, ret |-> ct]
    ELSE IF encode_policy_violated(ct.val)
    THEN [fs |-> files, ret |-> Err("PolicyViolation", ChunkType_to_string(ct.val))]
    ELSE
    LET c == Chunk_new(ct.val, message) IN
    IF ~c.ok THEN [fs |-> files, ret |-> c]
    ELSE png_write_to_file(files, append_chunk(p.val, c.val), out_path, io)

\* invoke_decode
invoke_decode(files, png_path, chunk_type) ==
    LET p == png_parse(files, png_path) IN
    IF ~p.ok THEN p
    ELSE LET c == chunk_by_type(p.val, chunk_type)
         IN  Ok(IF c.some THEN Some(Chunk_to_string(c.val)) ELSE None)

\* invoke_remove writing the datastream as it was parsed
invoke_remove_stale_write(files, png_path, chunk_type, out_path, io) ==
    LET p == png_parse(files, png_path) IN
    IF ~p.ok THEN [fs |-> files, ret |-> p]
    ELSE
    LET r == remove_chunk(p.val, chunk_type)
        message == IF r.ret.some THEN Some(Chunk_to_string(r.ret.val)) ELSE None
        w == png_write_to_file(files, p.val, out_path, io)
    IN  IF ~w.ret.ok THEN w ELSE [fs |-> w.fs, ret |-> Ok(message)]

\* invoke_remove: the files afterwards and the result
invoke_remove(files, png_path, chunk_type, out_path, io) ==
    LET p == png_parse(files, png_path) IN
    IF ~p.ok THEN [fs |-> files, ret |-> p]
    ELSE
    LET r == remove_chunk(p.val, chunk_type)
        message == IF r.ret.some THEN Some(Chunk_to_string(r.ret.val)) ELSE None
        w == png_write_to_file(files, r.png, out_path, io)
    IN  IF ~w.ret.ok THEN w ELSE [fs |-> w.fs, ret |-> Ok(message)]

--------------------------------------------------------------------------
(* Spec: the commands, run one after another on the files *)

\* "ruSt", a tag the encode policy accepts
RUST_OK == <<114, 117, 83, 116>>

\* "ruSt", "ruST", "ru1t": the tags decode and remove are run with
FindTypeTexts == {<<114, 117, 83, 116>>, <<114, 117, 83, 84>>, <<114, 117, 49, 116>>}

\* "ruSt", "ruST", "RuSt", "rUSt", "rust", "ru1t", "ruS": the tags encode is run with
CmdTypeTexts ==
    {<<114, 117, 83, 116>>, <<114, 117, 83, 84>>, <<82, 117, 83, 116>>,
     <<114, 85, 83, 116>>, <<114, 117, 115, 116>>, <<114, 117, 49, 116>>, <<114, 117, 83>>}

\* "secret"
SECRET == <<115, 101, 99, 114, 101, 116>>

OutPaths == {None, Some("in.png")}

\* the PNG files the commands start on: the signature alone, an IEND chunk, a message
\* chunk, a wrong signature, a chunk cut short, a chunk with a wrong CRC
InitialFiles ==
    LET iend == Chunk_as_bytes(Chunk_new(ChunkType_try_from(<<73, 69, 78, 68>>).val, <<>>).val)
        msg  == Chunk_as_bytes(Chunk_new(ChunkType_try_from(<<114, 117, 83, 116>>).val,
                                         <<104, 105>>).val)
    IN  {STANDARD_HEADER,
         STANDARD_HEADER \o iend,
         STANDARD_HEADER \o msg,
         <<137, 80, 78, 71, 13, 10, 26, 11>> \o iend,
         STANDARD_HEADER \o SubSeq(msg, 1, Len(msg) - 1),
         STANDARD_HEADER \o FlipBitAt(msg, 8 * (Len(msg) - 1))}

\* the most bytes of a file that encode is run on, the new chunk counted
MaxFileLen == 34

\* what the file system does to a write: all of it, or the create fails, or the copy
\* fails with nothing written or with all but the last byte written
IoOk == [kind |-> "ok", written |-> 0]

IoFailures ==
    {[kind |-> "create_fail", written |-> 0],
     [kind |-> "copy_fail", written |-> 0], [kind |-> "copy_fail", written |-> MaxFileLen]}

\* the tag and message of the encode runs: every tag with "secret", and "ruSt" with
\* the empty message
EncodeArgs ==
    {<<t, SECRET>> : t \in CmdTypeTexts} \cup {<<RUST_OK, <<>> >>}

OutFile(out_path) == IF out_path.some THEN out_path.val ELSE DEFAULT_OUTPUT

Init ==
    /\ fs \in {[q \in Paths |-> IF q = "in.png" THEN Some(f) ELSE None] : f \in InitialFiles}
    /\ last = [cmd |-> "init", png_path |-> "in.png", chunk_type |-> <<>>, message |-> <<>>,
               out_path |-> None, io |-> "ok", pre |-> fs, ret |-> Ok(<<>>),
               chain |-> 0, chainMsg |-> <<>>]

\* chain counts the steps of the run "encode on a file holding the signature alone,
\* decode of its output, remove on its output", all with one type tag and no I/O
\* failure; chainMsg is the message of that encode
Encode(png_path, chunk_type, message, out_path, io) ==
    LET r == invoke_encode(fs, png_path, chunk_type, message, out_path, io)
    IN  /\ fs[png_path].some => Len(fs[png_path].val) + 12 + Len(message) <= MaxFileLen
        /\ fs' = r.fs
        /\ last' = [cmd |-> "encode", png_path |-> png_path, chunk_type |-> chunk_type,
                    message |-> message, out_path |-> out_path, io |-> io.kind,
                    pre |-> fs, ret |-> r.ret,
                    chain |-> IF fs[png_path] = Some(STANDARD_HEADER) /\ io.kind = "ok"
                              THEN 1 ELSE 0,
                    chainMsg |-> message]

Decode(png_path, chunk_type) ==
    /\ last' = [cmd |-> "decode", png_path |-> png_path, chunk_type |-> chunk_type,
                message |-> <<>>, out_path |-> None, io |-> "ok",
                pre |-> fs, ret |-> invoke_decode(fs, png_path, chunk_type),
                chain |-> IF /\ last.chain = 1
                             /\ png_path = OutFile(last.out_path)
                             /\ chunk_type = last.chunk_type
                          THEN 2 ELSE 0,
                chainMsg |-> last.chainMsg]
    /\ UNCHANGED fs

Remove(png_path, chunk_type, out_path, io) ==
    LET r == invoke_remove(fs, png_path, chunk_type, out_path, io)
    IN  /\ fs' = r.fs
        /\ last' = [cmd |-> "remove", png_path |-> png_path, chunk_type |-> chunk_type,
                    message |-> <<>>, out_path |-> out_path, io |-> io.kind,
                    pre |-> fs, ret |-> r.ret,
                    chain |-> IF /\ last.chain = 2
                                 /\ png_path = last.png_path
                                 /\ chunk_type = last.chunk_type
                                 /\ io.kind = "ok"
                              THEN 3 ELSE 0,
                    chainMsg |-> last.chainMsg]

--------------------------------------------------------------------------
(* The specifications *)

NextType == (TypeFromBytes \/ TypeFromStr) /\ UNCHANGED <<chunkVars, lenVars, pngVars, cmdVars>>

NextChunk ==
    /\ \/ \E ct \in ChunkTypes, data \in Datas : NewChunk(ct, data)
       \/ Serialize
       \/ \E i \in 0..(MaxBits - 1) : FlipBit(i)
       \/ DropLast
       \/ ParseBuf
    /\ UNCHANGED <<typeVars, lenVars, pngVars, cmdVars>>

NextLen ==
    /\ \/ NewLength
       \/ \E d \in {USizeAsU32(lenIn.len), <<0, 0>>} : ParseLength(d)
    /\ UNCHANGED <<typeVars, chunkVars, pngVars, cmdVars>>

NextPng ==
    /\ \/ \E ct \in PngTypes, data \in PngDatas : PngAppend(ct, data)
       \/ \E t \in LookupTexts : PngLookup(t)
       \/ \E t \in LookupTexts : PngRemove(t)
       \/ PngParse
    /\ UNCHANGED <<typeVars, chunkVars, lenVars, cmdVars>>

\* a write fails only in a run that reaches the write, so the runs with an I/O
\* failure are those of a tag the policy accepts
Next ==
    /\ \/ \E q \in Paths, a \in EncodeArgs, o \in OutPaths : Encode(q, a[1], a[2], o, IoOk)
       \/ \E q \in Paths, io \in IoFailures : Encode(q, RUST_OK, SECRET, None, io)
       \/ \E q \in Paths, t \in FindTypeTexts : Decode(q, t)
       \/ \E q \in Paths, t \in FindTypeTexts, o \in OutPaths : Remove(q, t, o, IoOk)
       \/ \E q \in Paths, io \in IoFailures : Remove(q, RUST_OK, None, io)
    /\ UNCHANGED <<typeVars, chunkVars, lenVars, pngVars>>

\* the variables a specification does not use keep these values
IdleType  == tyIn = [kind |-> "none", arg |-> <<>>] /\ tyRes = Pending
IdleChunk == InitChunk
IdleLen   == lenIn = [len |-> <<0, 0, 0, 0>>] /\ lenRes = Pending /\ parsed = Pending
IdlePng   == InitPng
IdleCmd   ==
    /\ fs = [q \in Paths |-> None]
    /\ last = [cmd |-> "init", png_path |-> "in.png", chunk_type |-> <<>>, message |-> <<>>,
               out_path |-> None, io |-> "ok", pre |-> fs, ret |-> Ok(<<>>),
               chain |-> 0, chainMsg |-> <<>>]

\* the initial states of each specification: its own variables at their initial
\* values, the others idle
StartType  == InitType /\ IdleChunk /\ IdleLen /\ IdlePng /\ IdleCmd

StartChunk == IdleType /\ InitChunk /\ IdleLen /\ IdlePng /\ IdleCmd

StartLen   == IdleType /\ IdleChunk /\ InitLen /\ IdlePng /\ IdleCmd

StartPng   == IdleType /\ IdleChunk /\ IdleLen /\ InitPng /\ IdleCmd

StartCmd   == IdleType /\ IdleChunk /\ IdleLen /\ IdlePng /\ Init

SpecType  == StartType /\ [][NextType]_vars

SpecChunk == StartChunk /\ [][NextChunk]_vars

SpecLen   == StartLen /\ [][NextLen]_vars

SpecPng   == StartPng /\ [][NextPng]_vars

Spec      == StartCmd /\ [][Next]_vars

--------------------------------------------------------------------------
(* The claims *)

IsUpper(b) == b \in 65..90

IsLower(b) == b \in 97..122

IsLetter(b) == IsUpper(b) \/ IsLower(b)

\* the value of a u32 that fits a number of the model
U32Value(a) == (a[1] * 65536) + a[2]

\* CRC-32 bit by bit, without a table: reflected polynomial 0xEDB88320
RECURSIVE RefCrcBits(_, _)
RefCrcBits(crc, k) ==
    IF k = 0 \/ ~IsU32(crc) THEN crc
    ELSE LET s == <<crc[1] \div 2, ((crc[1] % 2) * 32768) + (crc[2] \div 2)>>
         IN  RefCrcBits(IF crc[2] % 2 = 1
                        THEN <<BitXor(s[1], 60856), BitXor(s[2], 33568)>>
                        ELSE s,
                        k - 1)

RECURSIVE RefCrcBytes(_, _)
RefCrcBytes(crc, bs) ==
    IF bs = <<>> \/ ~IsU32(crc) THEN crc
    ELSE RefCrcBytes(RefCrcBits(<<crc[1], BitXor(crc[2], Head(bs))>>, 8), Tail(bs))

\* init 0xFFFFFFFF, final XOR 0xFFFFFFFF
RefCrc32(bs) ==
    LET r == RefCrcBytes(<<65535, 65535>>, bs)
    IN  <<65535 - r[1], 65535 - r[2]>>

\* C1: a chunk from Chunk::new or from a successful Chunk::try_from parses back,
\* from its own serialization, to a chunk equal in length, type, data and crc; and a
\* serialization parsed undamaged gives a chunk that serializes to the same bytes.
C1_ChunkRoundTrip ==
    /\ chunk.ok =>
        /\ Chunk_try_from(Chunk_as_bytes(chunk.val)) = Ok(chunk.val)
        /\ \A i \in 1..Chunk_size(chunk.val) : Chunk_as_bytes(chunk.val)[i] \in 0..255
    /\ (chOp = "parse" /\ buf = orig) => chunk.ok /\ Chunk_as_bytes(chunk.val) = buf

C1_Witness ==
    /\ chOp = "parse"
    /\ buf = orig
    /\ chunk.ok
    /\ Len(chunk.val.data) = 2
    /\ Len(buf) = 14

\* C2: every chunk, built or parsed, has length = data.len() and crc = the CRC-32 of
\* its 4 type bytes followed by its data bytes.
C2_ChunkInvariant ==
    chunk.ok =>
        /\ U32Value(chunk.val.length) = Len(chunk.val.data)
        /\ chunk.val.crc = RefCrc32(chunk.val.chunk_type.inner \o chunk.val.data)

C2_Witness ==
    /\ chOp = "new"
    /\ chunk.ok
    /\ chunk.val.data = <<104, 255>>
    /\ chunk.val.length = <<0, 2>>

\* the byte of buf that holds bit i, and the regions of a serialized chunk
TypeRegion(i) == i >= 32 /\ i < 64

DataRegion(i) == i >= 64 /\ i < 64 + (8 * (Len(orig) - 12))

\* C3 as stated: a serialized chunk with one bit of its type or data region flipped
\* fails to parse with the CRC-mismatch error.
C3_Original ==
    (chOp = "parse" /\ \E i \in flips : TypeRegion(i) \/ DataRegion(i))
        => ~chunk.ok /\ chunk.err = "ChunkCrcMismatch"

\* C3 as amended: with one bit of the data region flipped the parse fails with the
\* CRC-mismatch error; with one bit of the type region flipped it fails too, with the
\* CRC-mismatch error when the 4 type bytes are still letters and with the
\* invalid-type-byte error otherwise.
C3_Amended ==
    /\ (chOp = "parse" /\ \E i \in flips : DataRegion(i))
        => ~chunk.ok /\ chunk.err = "ChunkCrcMismatch"
    /\ (chOp = "parse" /\ \E i \in flips : TypeRegion(i))
        => /\ ~chunk.ok
           /\ chunk.err = IF \A j \in 5..8 : IsLetter(buf[j])
                          THEN "ChunkCrcMismatch" ELSE "InvalidTypeByte"

C3_Witness ==
    /\ chOp = "parse"
    /\ \E i \in flips : TypeRegion(i)
    /\ ~chunk.ok
    /\ chunk.err = "ChunkCrcMismatch"
    /\ Len(orig) = 14

\* C6: Chunk::new succeeds exactly when data.len() <= 2^31 - 1; the length it stores
\* is data.len() itself (2^31 - 1 at the bound, nothing truncated); a longer data
\* fails with DataTooLarge.
C6_LengthEnforcement ==
    lenRes # Pending =>
        LET n == lenIn.len
            fits == n[1] = 0 /\ n[2] = 0 /\ n[3] <= 32767
        IN  /\ lenRes.ok <=> fits
            /\ lenRes.ok => lenRes.val = <<n[3], n[4]>> /\ U32AsUSize(lenRes.val) = n
            /\ n = <<0, 0, 32767, 65535>> => lenRes = Ok(<<32767, 65535>>)
            /\ ~lenRes.ok => lenRes.err = "DataTooLarge"

C6_Witness ==
    /\ lenIn.len = <<0, 0, 32767, 65535>>
    /\ lenRes.ok
    /\ lenRes.val = <<32767, 65535>>

\* the first index of bytes that holds no letter; 0 when there is none
FirstNonLetter(bytes) ==
    IF \A i \in 1..Len(bytes) : IsLetter(bytes[i]) THEN 0
    ELSE CHOOSE i \in 1..Len(bytes) :
            ~IsLetter(bytes[i]) /\ \A j \in 1..(i - 1) : IsLetter(bytes[j])

\* C7: the byte constructor succeeds exactly on 4 ASCII letters and fails otherwise
\* with the invalid-type-byte error (on the first offending byte); the text
\* constructor fails with the invalid-length error on a text that is not 4 bytes long
\* and otherwise does what the byte constructor does; a constructed type holds the
\* 4 input bytes, all letters, and renders as them.
C7_TypeConstruction ==
    tyRes # Pending =>
        /\ tyIn.kind = "str" /\ Len(tyIn.arg) # 4
            => ~tyRes.ok /\ tyRes.err = "InvalidTypeLength"
        /\ tyIn.kind = "bytes" \/ Len(tyIn.arg) = 4
            => /\ tyRes.ok <=> FirstNonLetter(tyIn.arg) = 0
               /\ ~tyRes.ok => /\ tyRes.err = "InvalidTypeByte"
                               /\ tyRes.detail = <<tyIn.arg[FirstNonLetter(tyIn.arg)]>>
        /\ tyRes.ok => /\ \A i \in 1..4 : tyRes.val.inner[i] = tyIn.arg[i]
                       /\ \A i \in 1..4 : IsLetter(tyRes.val.inner[i])
                       /\ ChunkType_to_string(tyRes.val) = tyIn.arg

C7_Witness ==
    /\ tyIn.kind = "str"
    /\ tyRes.ok
    /\ tyRes.val.inner = <<97, 122, 90, 97>>

\* C8: on a constructed type, is_critical holds exactly when byte 0 is upper case
\* (bit 5 clear), is_public when byte 1 is, is_reserved_bit_valid when byte 2 is,
\* is_safe_to_copy when byte 3 is lower case (bit 5 set), and is_valid is
\* is_reserved_bit_valid.
C8_PropertyBits ==
    tyRes.ok =>
        LET ct == tyRes.val
            b == tyRes.val.inner
        IN  /\ is_critical(ct) <=> IsUpper(b[1])
            /\ is_public(ct) <=> IsUpper(b[2])
            /\ is_reserved_bit_valid(ct) <=> IsUpper(b[3])
            /\ is_safe_to_copy(ct) <=> IsLower(b[4])
            /\ is_valid(ct) <=> is_reserved_bit_valid(ct)
            /\ is_critical(ct) <=> BitAnd(b[1], 32) = 0
            /\ is_public(ct) <=> BitAnd(b[2], 32) = 0
            /\ is_valid(ct) <=> BitAnd(b[3], 32) = 0
            /\ is_safe_to_copy(ct) <=> BitAnd(b[4], 32) = 32

C8_Witness ==
    /\ tyRes.ok
    /\ tyIn.kind = "bytes"
    /\ ~is_critical(tyRes.val)
    /\ ~is_public(tyRes.val)
    /\ is_valid(tyRes.val)
    /\ is_safe_to_copy(tyRes.val)

\* the text of data whose bytes are ASCII or can be no part of UTF-8 (0xF8..0xFF):
\* each of the latter is replaced by U+FFFD (EF BF BD)
RECURSIVE RefLossyText(_)
RefLossyText(data) ==
    IF data = <<>> THEN <<>>
    ELSE (IF Head(data) < 128 THEN <<Head(data)>> ELSE <<239, 191, 189>>)
            \o RefLossyText(Tail(data))

\* the last operation is a lookup or a removal with the type of the chunk c that the
\* last mutating operation before it appended
AfterAppendOfType ==
    /\ pngLast.op \in {"lookup", "remove"}
    /\ pngLast.prev.some
    /\ pngLast.arg = pngLast.prev.val.chunk_type.inner

\* C9 as stated: for any datastream and any chunk c of type T with data D, after
\* append_chunk(c), chunk_by_type(T) returns a chunk whose rendered text is D;
\* remove_chunk(T) then returns that chunk, and chunk_by_type(T) then returns none.
C9_Original ==
    AfterAppendOfType =>
        /\ pngLast.op = "lookup"
            => /\ pngLast.ret.some
               /\ Chunk_to_string(pngLast.ret.val) = pngLast.prev.val.data
        /\ pngLast.op = "remove"
            => /\ pngLast.ret.some
               /\ pngLast.ret = chunk_by_type(pngLast.pre, pngLast.arg)
               /\ Chunk_to_string(pngLast.ret.val) = pngLast.prev.val.data
               /\ chunk_by_type(png, pngLast.arg) = None

\* no chunk before the last one of the datastream has the type T of the call
NoEarlierOfType ==
    \A i \in 1..(Len(pngLast.pre.chunks) - 1) :
        pngLast.pre.chunks[i].chunk_type.inner # pngLast.arg

\* C9 as amended: for a datastream that holds no chunk of type T and a chunk c of type
\* T with data D, after append_chunk(c), chunk_by_type(T) returns c, whose rendered
\* text is the lossy UTF-8 decoding of D (D itself when D is UTF-8); remove_chunk(T)
\* then returns c and leaves the datastream as it was before the append, so that
\* chunk_by_type(T) returns none.
C9_Amended ==
    (AfterAppendOfType /\ NoEarlierOfType) =>
        /\ pngLast.ret = Some(pngLast.prev.val)
        /\ Chunk_to_string(pngLast.ret.val) = RefLossyText(pngLast.prev.val.data)
        /\ pngLast.op = "remove"
            => /\ chunk_by_type(png, pngLast.arg) = None
               /\ Append(png.chunks, pngLast.prev.val) = pngLast.pre.chunks

C9_Witness ==
    /\ AfterAppendOfType
    /\ NoEarlierOfType
    /\ pngLast.op = "remove"
    /\ pngLast.ret.some
    /\ pngLast.ret.val.data = <<255>>
    /\ Len(png.chunks) = 2

\* the indices of the chunks of the datastream before the last operation whose type
\* is the 4 bytes of the text of the call
TypeHits ==
    {i \in 1..Len(pngLast.pre.chunks) : pngLast.pre.chunks[i].chunk_type.inner = pngLast.arg}

\* C10: remove_chunk(T) deletes exactly one chunk, the first whose type renders as T,
\* and leaves every other chunk present, unchanged and in the same order; when no
\* chunk matches (T that is no well-formed type tag included) it returns none and
\* the chunk sequence and the serialization of the datastream are unchanged.
C10_RemoveFrame ==
    pngLast.op = "remove" =>
        LET pre == pngLast.pre.chunks IN
        IF TypeHits = {}
        THEN /\ pngLast.ret = None
             /\ png.chunks = pre
             /\ PNG_as_bytes(png) = PNG_as_bytes(pngLast.pre)
        ELSE LET i == CHOOSE h \in TypeHits : \A j \in TypeHits : h <= j
             IN  /\ pngLast.ret = Some(pre[i])
                 /\ Len(png.chunks) = Len(pre) - 1
                 /\ \A j \in 1..(Len(pre) - 1) :
                        png.chunks[j] = IF j < i THEN pre[j] ELSE pre[j + 1]

C10_Witness ==
    /\ pngLast.op = "remove"
    /\ Len(pngLast.pre.chunks) = 3
    /\ TypeHits = {2, 3}
    /\ pngLast.ret = Some(pngLast.pre.chunks[2])
    /\ Len(png.chunks) = 2

\* the tag is 4 ASCII letters
WellFormedTag(t) == Len(t) = 4 /\ \A i \in 1..4 : IsLetter(t[i])

\* the tag is ancillary, private, reserved-bit-valid and safe to copy
PolicyAccepts(t) ==
    /\ WellFormedTag(t)
    /\ IsLower(t[1])
    /\ IsLower(t[2])
    /\ IsUpper(t[3])
    /\ IsLower(t[4])

\* the serialization of the chunk with tag t and data message
RefChunkBytes(t, message) ==
    <<0, 0, 0, Len(message)>> \o t \o message \o to_be_bytes(RefCrc32(t \o message))

\* C4: encode appends a chunk and produces output only when the tag is ancillary,
\* private, reserved-bit-valid and safe to copy; for every well-formed 4-letter tag
\* that violates one of the four, encode returns an error, appends nothing and
\* writes no output.
C4_EncodePolicy ==
    last.cmd = "encode" =>
        /\ fs # last.pre => PolicyAccepts(last.chunk_type)
        /\ last.ret.ok
            => /\ PolicyAccepts(last.chunk_type)
               /\ fs[OutFile(last.out_path)] =
                    Some(last.pre[last.png_path].val
                            \o RefChunkBytes(last.chunk_type, last.message))
        /\ (WellFormedTag(last.chunk_type) /\ ~PolicyAccepts(last.chunk_type))
            => ~last.ret.ok /\ fs = last.pre

C4_Witness ==
    /\ last.cmd = "encode"
    /\ last.chunk_type = <<114, 117, 83, 84>>
    /\ last.pre[last.png_path] = Some(STANDARD_HEADER)
    /\ ~last.ret.ok
    /\ last.ret.err = "PolicyViolation"
    /\ fs = last.pre

\* what the scenario says of its steps: the encode succeeds, the decode of its output
\* returns the message, and the remove returns the message and leaves the signature
ScenarioHolds ==
    /\ last.chain = 1 => last.ret.ok
    /\ last.chain = 2 => last.ret = Ok(Some(last.chainMsg))
    /\ last.chain = 3 => /\ last.ret = Ok(Some(last.chainMsg))
                         /\ fs[OutFile(last.out_path)] = Some(STANDARD_HEADER)

\* C5 as stated: from a signature-only datastream, encode with type "ruST" and
\* message "secret" succeeds; decode with "ruST" on its output returns "secret"; a
\* following remove with "ruST" returns "secret" and leaves the signature-only bytes.
C5_Original ==
    (last.chain >= 1 /\ last.chunk_type = <<114, 117, 83, 84>> /\ last.chainMsg = SECRET)
        => ScenarioHolds

\* C5 as amended: the same with the type "ruSt", which the encode policy accepts
\* ("ruST" is not safe to copy and encode refuses it).
C5_Amended ==
    /\ (last.chain >= 1 /\ last.chunk_type = <<114, 117, 83, 116>> /\ last.chainMsg = SECRET)
        => ScenarioHolds
    /\ (last.chain = 1 /\ last.chunk_type = <<114, 117, 83, 84>>)
        => ~last.ret.ok /\ last.ret.err = "PolicyViolation"

C5_Witness ==
    /\ last.chain = 3
    /\ last.chunk_type = <<114, 117, 83, 116>>
    /\ last.chainMsg = SECRET
    /\ last.ret = Ok(Some(SECRET))
    /\ fs[OutFile(last.out_path)] = Some(STANDARD_HEADER)

\* the chunks' serializations one after another, each written out from its fields:
\* length and crc big-endian, the type and the data bytes between them
RECURSIVE RefSerialization(_)
RefSerialization(cs) ==
    IF cs = <<>> THEN <<>>
    ELSE LET c == Head(cs)
         IN  <<c.length[1] \div 256, c.length[1] % 256, c.length[2] \div 256, c.length[2] % 256>>
                \o c.chunk_type.inner \o c.data
                \o <<c.crc[1] \div 256, c.crc[1] % 256, c.crc[2] \div 256, c.crc[2] % 256>>
                \o RefSerialization(Tail(cs))

\* the bytes before chunk k in the serialization: the signature and the chunks before
\* it, each of 12 + its declared length bytes
RECURSIVE OffsetOfChunk(_, _)
OffsetOfChunk(cs, k) ==
    IF k = 1 THEN 8
    ELSE OffsetOfChunk(cs, k - 1) + 12 + U32Value(cs[k - 1].length)

\* C11: for every datastream reached by parsing, append_chunk and remove_chunk, the
\* serialization is the 8 signature bytes followed by each chunk's serialization in
\* the current order, and parsing the serialization succeeds and gives the same
\* chunks in the same order, chunk k taking 12 + its declared length bytes.
C11_DatastreamRoundTrip ==
    /\ PNG_as_bytes(png) = <<137, 80, 78, 71, 13, 10, 26, 10>> \o RefSerialization(png.chunks)
    /\ PNG_try_from(PNG_as_bytes(png)) = Ok(png)
    /\ pngLast.op = "parse"
        => /\ pngLast.ret = Ok(pngLast.pre)
           /\ png = pngLast.pre
           /\ Len(pngLast.arg) = OffsetOfChunk(png.chunks, Len(png.chunks) + 1)
           /\ \A k \in 1..Len(png.chunks) :
                Chunk_try_from(SubSeq(pngLast.arg, OffsetOfChunk(png.chunks, k) + 1,
                                      OffsetOfChunk(png.chunks, k + 1)))
                    = Ok(png.chunks[k])

C11_Witness ==
    /\ pngLast.op = "parse"
    /\ pngLast.ret.ok
    /\ Len(png.chunks) = 3
    /\ png.chunks[1].data = <<104, 105>>
    /\ png.chunks[2].data = <<255>>
    /\ png.chunks[3].data = <<104>>
    /\ Len(pngLast.arg) = 48

\* the last command is one that writes an output file
WritingCommand == last.cmd \in {"encode", "remove"}

\* the errors of the write itself: File::create failed, io::copy failed
WriteErrors == {"CreateFailed", "WriteFailed"}

\* a is b without some bytes of its end
IsProperPrefix(a, b) == Len(a) < Len(b) /\ a = SubSeq(b, 1, Len(a))

\* what the last command writes when nothing fails
FullOutput ==
    IF last.cmd = "encode"
    THEN last.pre[last.png_path].val \o RefChunkBytes(last.chunk_type, last.message)
    ELSE PNG_as_bytes(remove_chunk(PNG_try_from(last.pre[last.png_path].val).val,
                                   last.chunk_type).png)

\* C12 as stated: in encode and remove, on any execution in which some step fails, no
\* output file, partial or complete, has been created or written.
C12_Original ==
    (WritingCommand /\ ~last.ret.ok) => fs = last.pre

\* C12 as amended: in encode and remove the output file is written only after every
\* earlier step (reading and parsing the datastream, type-tag construction, policy
\* check, chunk construction) has succeeded, and when one of these steps fails no
\* file has been created or written; when the write itself fails, at the creation
\* nothing has changed, and during the copy the output file has been created or
\* truncated and holds the serialization without some bytes of its end.
C12_Amended ==
    WritingCommand =>
        /\ (~last.ret.ok /\ last.ret.err \notin WriteErrors) => fs = last.pre
        /\ (~last.ret.ok /\ last.ret.err = "CreateFailed") => fs = last.pre
        /\ fs # last.pre
            => /\ last.pre[last.png_path].some
               /\ PNG_try_from(last.pre[last.png_path].val).ok
               /\ last.cmd = "encode" => PolicyAccepts(last.chunk_type)
               /\ \A q \in Paths : q # OutFile(last.out_path) => fs[q] = last.pre[q]
               /\ fs[OutFile(last.out_path)].some
        /\ (~last.ret.ok /\ last.ret.err = "WriteFailed")
            => IsProperPrefix(fs[OutFile(last.out_path)].val, FullOutput)
        /\ last.ret.ok => fs[OutFile(last.out_path)] = Some(FullOutput)

C12_Witness ==
    /\ last.cmd = "remove"
    /\ ~last.ret.ok
    /\ last.ret.err = "ChunkCrcMismatch"
    /\ last.out_path = Some(last.png_path)
    /\ fs = last.pre

\* C13: every Chunk, one returned by a successful Chunk::try_from included, has
\* length <= 2^31 - 1: parsing enforces on the declared length the bound that
\* Chunk::new enforces on the size of the data.
C13_LengthBound ==
    /\ lenRes.ok => lenRes.val[1] <= 32767
    /\ (parsed # Pending /\ parsed.ret.ok) => parsed.ret.val[1] <= 32767

\* a parse that succeeded with a declared length of 2^31
C13_Witness ==
    /\ parsed # Pending
    /\ parsed.ret.ok
    /\ lenIn.len = <<0, 0, 32768, 0>>
    /\ parsed.ret.val = <<32768, 0>>

====
